---- MODULE Spec2Model ----
(***************************************************************************)
(* The PingPong contract of src/src/ping_pong.rs as a state machine.       *)
(*                                                                         *)
(* The storage mappers are the state.  Every endpoint is one action: the   *)
(* host runs a call to completion, and a failed require! (signal_error)    *)
(* or a failed transfer discards every write of the call (Abort).  u64     *)
(* values live in 0..MaxU64, a scaled-down 2^64 - 1; a u64 addition that   *)
(* leaves the range panics in a build with overflow checks and wraps in a  *)
(* build without: each such addition may take either outcome.              *)
(***************************************************************************)
EXTENDS Integers, Sequences, FiniteSets, TLC

\* ------------------------------------------------------------------ bounds
MaxU64 == 4
MaxAmount == 2
MaxBalance == 3

U64Modulus == MaxU64 + 1
U64 == 0..MaxU64

Address == {"alice", "bob"}
\* who deploys, and with which optional token argument
Deployments == {<<"alice", "none">>, <<"bob", "ESDT">>}
NoAddress == "none"
EGLD == "EGLD"
Tokens == {EGLD, "ESDT"}
NoToken == "none"

\* arguments the callers draw from
AmountArgs == {0, 1, MaxAmount}
DurationArgs == {0, 1, 2, MaxU64}
SecondsArgs == {0, 1, MaxU64}

VARIABLES
    accepted_payment_token_id,  \* storage "acceptedPaymentTokenId"
    ping_amount,                \* storage "pingAmount"
    duration_in_seconds,        \* storage "durationInSeconds"
    user_ping_timestamp,        \* storage "userPingTimestamp": address -> stored bytes
    paused,                     \* storage "paused"
    owner,                      \* storage "owner"
    block_timestamp,            \* host: the block timestamp calls read
    balance,                    \* host: the contract's balance of the accepted token
    last,                       \* the outcome of the latest call
    held,                       \* history: the party's latest successful ping or pong was a ping
    deposited                   \* history (SpecDeposits only): the amount attached to the
                                \* party's latest successful ping, 0 once a successful
                                \* pong followed it

storage == <<accepted_payment_token_id, ping_amount, duration_in_seconds,
             user_ping_timestamp, paused, owner>>
vars == <<accepted_payment_token_id, ping_amount, duration_in_seconds,
          user_ping_timestamp, paused, owner, block_timestamp, balance,
          last, held, deposited>>

\* ------------------------------------------------------- storage encoding
\* SingleValueMapper<u64>::set stores the top-encoding of the value: the
\* minimal big-endian bytes, none at all for 0.
top_encode_u64(v) == IF v = 0 THEN <<>> ELSE <<v>>
\* SingleValueMapper<u64>::get: empty storage decodes to 0.
top_decode_u64(b) == IF b = <<>> THEN 0 ELSE b[1]

\* ------------------------------------------------------------- u64 '+'
\* the build's overflow-checks setting: on (an overflow panics) or off (it wraps)
OverflowChecks == BOOLEAN
Overflows(a, b) == a + b > MaxU64
WrappingAdd(a, b) == (a + b) % U64Modulus

\* ------------------------------------------------------------------ views
did_user_ping(address) == user_ping_timestamp[address] # <<>>

get_user_ping_timestamp(address) == top_decode_u64(user_ping_timestamp[address])

\* the view's u64 sum overflows (it panics in a build with overflow checks)
pong_enable_overflows(address) ==
    /\ did_user_ping(address)
    /\ Overflows(get_user_ping_timestamp(address), duration_in_seconds)

get_pong_enable_timestamp(address) ==
    IF ~did_user_ping(address)
    THEN 0
    ELSE WrappingAdd(get_user_ping_timestamp(address), duration_in_seconds)

\* OptionalValue<u64>: <<>> is None, <<v>> is Some(v)
\* the value get_time_to_pong returns when it returns
get_time_to_pong(address) ==
    IF ~did_user_ping(address)
    THEN <<>>
    ELSE LET pong_enable_timestamp == get_pong_enable_timestamp(address)
             current_timestamp == block_timestamp
         IN  IF current_timestamp >= pong_enable_timestamp
             THEN <<0>>
             ELSE <<pong_enable_timestamp - current_timestamp>>

\* get_pong_enable_timestamp and get_time_to_pong end in a panic instead of a
\* value: the sum overflows in a build with overflow checks
view_panics(address, overflow_checks) ==
    overflow_checks /\ pong_enable_overflows(address)

get_accepted_payment_token == accepted_payment_token_id
get_ping_amount == ping_amount
get_duration_timestamp == duration_in_seconds
get_paused == paused
get_owner == owner

\* ------------------------------------------------------------ call outcome
Deployed == owner # NoAddress

Result(op, caller, err, arg, paid, event) ==
    last' = [op |-> op, caller |-> caller, err |-> err,
             arg |-> arg, paid |-> paid, event |-> event, nested |-> "none"]

\* What a pong by the recipient gets when it is entered from inside the
\* transfer of an accepted pong, the ledger being `ledger` at that point: the
\* checks of pong in their order.
reentrant_pong(ledger, caller) ==
    IF paused
    THEN "ContractPaused"
    ELSE IF ledger[caller] = <<>>
    THEN "NoPingFound"
    ELSE IF ~(block_timestamp >=
                WrappingAdd(top_decode_u64(ledger[caller]), duration_in_seconds))
    THEN "CannotPongBeforeDeadline"
    ELSE "ok"

\* the outcome of an accepted pong: what it paid, and what a re-entrant pong
\* of the recipient got
Paid(caller, amount, ledger_at_transfer) ==
    last' = [op |-> "pong", caller |-> caller, err |-> "ok", arg |-> 0,
             paid |-> amount, event |-> "pongEvent",
             nested |-> reentrant_pong(ledger_at_transfer, caller)]

\* mutant: the transfer is made before the ledger entry is cleared
pong_send_then_clear(caller) ==
    /\ user_ping_timestamp' = [user_ping_timestamp EXCEPT ![caller] = <<>>]
    /\ balance' = balance - ping_amount
    /\ held' = [held EXCEPT ![caller] = FALSE]
    /\ UNCHANGED <<accepted_payment_token_id, ping_amount,
                   duration_in_seconds, paused, owner>>
    /\ Paid(caller, ping_amount, user_ping_timestamp)

\* the writes of an accepted pong: clear the entry, then transfer, then the event
pong_clear_then_send(caller) ==
    LET cleared == [user_ping_timestamp EXCEPT ![caller] = <<>>]
    IN  /\ user_ping_timestamp' = cleared
        /\ balance' = balance - ping_amount
        /\ held' = [held EXCEPT ![caller] = FALSE]
        /\ UNCHANGED <<accepted_payment_token_id, ping_amount,
                       duration_in_seconds, paused, owner>>
        /\ Paid(caller, ping_amount, cleared)

\* signal_error: the call ends, the host drops its writes, transfers and events
Abort(op, caller, arg, err) ==
    /\ Result(op, caller, err, arg, 0, "none")
    /\ UNCHANGED <<storage, balance, held>>

Host == UNCHANGED block_timestamp

\* ------------------------------------------------------------------- init
\* mutant: the optional token is stored as given, without the native default
init_no_default_token(caller, amount, duration, opt_token_id) ==
    /\ ~Deployed
    /\ Host
    /\ IF ~(amount > 0)
       THEN Abort("init", caller, 0, "PingAmountCannotBeZero")
       ELSE IF ~(duration > 0)
       THEN Abort("init", caller, 0, "DurationCannotBeZero")
       ELSE /\ ping_amount' = amount
            /\ duration_in_seconds' = duration
            /\ accepted_payment_token_id' = opt_token_id
            /\ owner' = caller
            /\ paused' = FALSE
            /\ UNCHANGED <<user_ping_timestamp, balance, held>>
            /\ Result("init", caller, "ok", 0, 0, "none")

init(caller, amount, duration, opt_token_id) ==
    /\ ~Deployed
    /\ Host
    /\ IF ~(amount > 0)
       THEN Abort("init", caller, 0, "PingAmountCannotBeZero")
       ELSE IF ~(duration > 0)
       THEN Abort("init", caller, 0, "DurationCannotBeZero")
       ELSE /\ ping_amount' = amount
            /\ duration_in_seconds' = duration
            /\ accepted_payment_token_id' =
                   (IF opt_token_id = NoToken THEN EGLD ELSE opt_token_id)
            /\ owner' = caller
            /\ paused' = FALSE
            /\ UNCHANGED <<user_ping_timestamp, balance, held>>
            /\ Result("init", caller, "ok", 0, 0, "none")

\* ---------------------------------------------------------------- upgrade
\* mutant: the duration is stored unchecked
upgrade_unchecked_duration(caller, amount, duration) ==
    /\ Deployed
    /\ Host
    /\ IF caller # owner
       THEN Abort("upgrade", caller, 0, "OnlyOwnerCanPerformThisAction")
       ELSE IF ~(amount > 0)
       THEN Abort("upgrade", caller, 0, "PingAmountCannotBeZero")
       ELSE /\ ping_amount' = amount
            /\ duration_in_seconds' = duration
            /\ UNCHANGED <<accepted_payment_token_id, user_ping_timestamp,
                           paused, owner, balance, held>>
            /\ Result("upgrade", caller, "ok", 0, 0, "none")

\* mutant: the token is set again, to the native default of init
upgrade_resets_token(caller, amount, duration) ==
    /\ Deployed
    /\ Host
    /\ IF caller # owner
       THEN Abort("upgrade", caller, 0, "OnlyOwnerCanPerformThisAction")
       ELSE IF ~(amount > 0)
       THEN Abort("upgrade", caller, 0, "PingAmountCannotBeZero")
       ELSE IF ~(duration > 0)
       THEN Abort("upgrade", caller, 0, "DurationCannotBeZero")
       ELSE /\ ping_amount' = amount
            /\ duration_in_seconds' = duration
            /\ accepted_payment_token_id' = EGLD
            /\ UNCHANGED <<user_ping_timestamp, paused, owner, balance, held>>
            /\ Result("upgrade", caller, "ok", 0, 0, "none")

\* mutant: the amount written before the duration check survives the rejection
upgrade_partial_write(caller, amount, duration) ==
    /\ Deployed
    /\ Host
    /\ IF caller # owner
       THEN Abort("upgrade", caller, 0, "OnlyOwnerCanPerformThisAction")
       ELSE IF ~(amount > 0)
       THEN Abort("upgrade", caller, 0, "PingAmountCannotBeZero")
       ELSE IF ~(duration > 0)
       THEN /\ ping_amount' = amount
            /\ UNCHANGED <<accepted_payment_token_id, duration_in_seconds,
                           user_ping_timestamp, paused, owner, balance, held>>
            /\ Result("upgrade", caller, "DurationCannotBeZero", 0, 0, "none")
       ELSE /\ ping_amount' = amount
            /\ duration_in_seconds' = duration
            /\ UNCHANGED <<accepted_payment_token_id, user_ping_timestamp,
                           paused, owner, balance, held>>
            /\ Result("upgrade", caller, "ok", 0, 0, "none")

\* mutant: a retune restarts the running locks at the current block timestamp
upgrade_restarts_locks(caller, amount, duration) ==
    /\ Deployed
    /\ Host
    /\ IF caller # owner
       THEN Abort("upgrade", caller, 0, "OnlyOwnerCanPerformThisAction")
       ELSE IF ~(amount > 0)
       THEN Abort("upgrade", caller, 0, "PingAmountCannotBeZero")
       ELSE IF ~(duration > 0)
       THEN Abort("upgrade", caller, 0, "DurationCannotBeZero")
       ELSE /\ ping_amount' = amount
            /\ duration_in_seconds' = duration
            /\ user_ping_timestamp' =
                   [a \in Address |->
                       IF did_user_ping(a)
                       THEN top_encode_u64(block_timestamp)
                       ELSE user_ping_timestamp[a]]
            /\ UNCHANGED <<accepted_payment_token_id, paused, owner, balance, held>>
            /\ Result("upgrade", caller, "ok", 0, 0, "none")

upgrade(caller, amount, duration) ==
    /\ Deployed
    /\ Host
    /\ IF caller # owner
       THEN Abort("upgrade", caller, 0, "OnlyOwnerCanPerformThisAction")
       ELSE IF ~(amount > 0)
       THEN Abort("upgrade", caller, 0, "PingAmountCannotBeZero")
       ELSE IF ~(duration > 0)
       THEN Abort("upgrade", caller, 0, "DurationCannotBeZero")
       ELSE /\ ping_amount' = amount
            /\ duration_in_seconds' = duration
            /\ UNCHANGED <<accepted_payment_token_id, user_ping_timestamp,
                           paused, owner, balance, held>>
            /\ Result("upgrade", caller, "ok", 0, 0, "none")

\* ------------------------------------------------------------------- ping
ping(caller, payment_token, payment_amount) ==
    /\ Deployed
    /\ Host
    /\ IF paused
       THEN Abort("ping", caller, 0, "ContractPaused")
       ELSE IF payment_token # accepted_payment_token_id
       THEN Abort("ping", caller, 0, "InvalidPaymentToken")
       ELSE IF payment_amount # ping_amount
       THEN Abort("ping", caller, 0, "IncorrectPingAmount")
       ELSE IF did_user_ping(caller)
       THEN Abort("ping", caller, 0, "AlreadyPinged")
       ELSE /\ balance + payment_amount <= MaxBalance
            /\ user_ping_timestamp' =
                   [user_ping_timestamp EXCEPT ![caller] = top_encode_u64(block_timestamp)]
            /\ balance' = balance + payment_amount
            /\ held' = [held EXCEPT ![caller] = TRUE]
            /\ UNCHANGED <<accepted_payment_token_id, ping_amount,
                           duration_in_seconds, paused, owner>>
            /\ Result("ping", caller, "ok", block_timestamp, 0, "pingEvent")

\* ------------------------------------------------------------------- pong
\* mutant: the deadline check compares with the stored timestamp alone
pong_no_duration(caller) ==
    /\ Deployed
    /\ Host
    /\ IF paused
       THEN Abort("pong", caller, 0, "ContractPaused")
       ELSE IF ~did_user_ping(caller)
       THEN Abort("pong", caller, 0, "NoPingFound")
       ELSE IF ~(block_timestamp >= get_user_ping_timestamp(caller))
       THEN Abort("pong", caller, 0, "CannotPongBeforeDeadline")
       ELSE IF balance < ping_amount
       THEN Abort("pong", caller, 0, "TransferFailed")
       ELSE pong_clear_then_send(caller)

pong(caller) ==
    /\ Deployed
    /\ Host
    /\ IF paused
       THEN Abort("pong", caller, 0, "ContractPaused")
       ELSE IF ~did_user_ping(caller)
       THEN Abort("pong", caller, 0, "NoPingFound")
       ELSE \E overflow_checks \in OverflowChecks :
            IF overflow_checks /\ pong_enable_overflows(caller)
       THEN Abort("pong", caller, 0, "ArithmeticOverflow")
       ELSE IF ~(block_timestamp >= get_pong_enable_timestamp(caller))
       THEN Abort("pong", caller, 0, "CannotPongBeforeDeadline")
       ELSE IF balance < ping_amount
       THEN Abort("pong", caller, 0, "TransferFailed")
       ELSE pong_clear_then_send(caller)

\* ---------------------------------------------------------- pause, unpause
pause(caller) ==
    /\ Deployed
    /\ Host
    /\ IF caller # owner
       THEN Abort("pause", caller, 0, "OnlyOwnerCanPerformThisAction")
       ELSE /\ paused' = TRUE
            /\ UNCHANGED <<accepted_payment_token_id, ping_amount,
                           duration_in_seconds, user_ping_timestamp, owner,
                           balance, held>>
            /\ Result("pause", caller, "ok", 0, 0, "none")

\* mutant: no owner check
unpause_by_anyone(caller) ==
    /\ Deployed
    /\ Host
    /\ paused' = FALSE
    /\ UNCHANGED <<accepted_payment_token_id, ping_amount,
                   duration_in_seconds, user_ping_timestamp, owner,
                   balance, held>>
    /\ Result("unpause", caller, "ok", 0, 0, "none")

unpause(caller) ==
    /\ Deployed
    /\ Host
    /\ IF caller # owner
       THEN Abort("unpause", caller, 0, "OnlyOwnerCanPerformThisAction")
       ELSE /\ paused' = FALSE
            /\ UNCHANGED <<accepted_payment_token_id, ping_amount,
                           duration_in_seconds, user_ping_timestamp, owner,
                           balance, held>>
            /\ Result("unpause", caller, "ok", 0, 0, "none")

\* --------------------------------------------------- extend_ping_duration
\* the write of extend_ping_duration: the stored timestamp becomes the old
\* enable timestamp plus additional_seconds
extend_write(caller, additional_seconds) ==
    LET current_pong_enable_timestamp == get_pong_enable_timestamp(caller)
        new_pong_enable_timestamp ==
            WrappingAdd(current_pong_enable_timestamp, additional_seconds)
    IN  \E overflow_checks \in OverflowChecks :
        IF overflow_checks
           /\ (\/ pong_enable_overflows(caller)
               \/ Overflows(current_pong_enable_timestamp, additional_seconds))
        THEN Abort("extend_ping_duration", caller, 0, "ArithmeticOverflow")
        ELSE /\ user_ping_timestamp' =
                    [user_ping_timestamp EXCEPT
                        ![caller] = top_encode_u64(new_pong_enable_timestamp)]
              /\ UNCHANGED <<accepted_payment_token_id, ping_amount,
                            duration_in_seconds, paused, owner, balance, held>>
             /\ Result("extend_ping_duration", caller, "ok",
                       additional_seconds, 0, "none")

\* mutant: no pause check
extend_ping_duration_ungated(caller, additional_seconds) ==
    /\ Deployed
    /\ Host
    /\ IF ~did_user_ping(caller)
       THEN Abort("extend_ping_duration", caller, 0, "NoPingFound")
       ELSE IF ~(additional_seconds > 0)
       THEN Abort("extend_ping_duration", caller, 0, "InvalidExtensionAmount")
       ELSE extend_write(caller, additional_seconds)

extend_ping_duration(caller, additional_seconds) ==
    /\ Deployed
    /\ Host
    /\ IF paused
       THEN Abort("extend_ping_duration", caller, 0, "ContractPaused")
       ELSE IF ~did_user_ping(caller)
       THEN Abort("extend_ping_duration", caller, 0, "NoPingFound")
       ELSE IF ~(additional_seconds > 0)
       THEN Abort("extend_ping_duration", caller, 0, "InvalidExtensionAmount")
       ELSE extend_write(caller, additional_seconds)

\* ------------------------------------------------------------------- host
\* the block timestamp does not decrease from one call to the next
Tick ==
    /\ \E t \in U64 : t > block_timestamp /\ block_timestamp' = t
    /\ UNCHANGED <<storage, balance, last, held>>

\* ---------------------------------------------------------- specification
Init ==
    /\ accepted_payment_token_id = NoToken
    /\ ping_amount = 0
    /\ duration_in_seconds = 0
    /\ user_ping_timestamp = [a \in Address |-> <<>>]
    /\ paused = FALSE
    /\ owner = NoAddress
    /\ block_timestamp = 0
    /\ balance = 0
    /\ last = [op |-> "none", caller |-> NoAddress, err |-> "ok",
               arg |-> 0, paid |-> 0, event |-> "none", nested |-> "none"]
    /\ held = [a \in Address |-> FALSE]
    /\ deposited = [a \in Address |-> 0]

\* Spec leaves the history of deposited amounts alone
Untracked == UNCHANGED deposited

Next ==
    \/ \E dep \in Deployments, a \in AmountArgs, d \in DurationArgs :
          init(dep[1], a, d, dep[2]) /\ Untracked
    \/ \E c \in Address, a \in AmountArgs, d \in DurationArgs :
          upgrade(c, a, d) /\ Untracked
    \/ \E c \in Address, t \in Tokens, a \in AmountArgs :
          ping(c, t, a) /\ Untracked
    \/ \E c \in Address : pong(c) /\ Untracked
    \/ \E c \in Address : pause(c) /\ Untracked
    \/ \E c \in Address : unpause(c) /\ Untracked
    \/ \E c \in Address, s \in SecondsArgs :
          extend_ping_duration(c, s) /\ Untracked
    \/ Tick /\ Untracked

Spec == Init /\ [][Next]_vars

\* SpecDeposits: the same calls, with the amount of every accepted ping kept
\* until the party's next accepted pong
DepositMade(caller, payment_amount) ==
    deposited' = IF last'.err = "ok"
                 THEN [deposited EXCEPT ![caller] = payment_amount]
                 ELSE deposited

DepositReturned(caller) ==
    deposited' = IF last'.err = "ok"
                 THEN [deposited EXCEPT ![caller] = 0]
                 ELSE deposited

NextDeposits ==
    \/ \E dep \in Deployments, a \in AmountArgs, d \in DurationArgs :
          init(dep[1], a, d, dep[2]) /\ Untracked
    \/ \E c \in Address, a \in AmountArgs, d \in DurationArgs :
          upgrade(c, a, d) /\ Untracked
    \/ \E c \in Address, t \in Tokens, a \in AmountArgs :
          ping(c, t, a) /\ DepositMade(c, a)
    \/ \E c \in Address : pong(c) /\ DepositReturned(c)
    \/ \E c \in Address : pause(c) /\ Untracked
    \/ \E c \in Address : unpause(c) /\ Untracked
    \/ \E c \in Address, s \in SecondsArgs :
          extend_ping_duration(c, s) /\ Untracked
    \/ Tick /\ Untracked

SpecDeposits == Init /\ [][NextDeposits]_vars

\* the behaviours in which, from initialisation on, the contract is never
\* paused, retuned or extended, time keeps advancing while it can, and a pong
\* that can be accepted is eventually made
Withdraws(caller) == pong(caller) /\ last'.err = "ok" /\ Untracked

NextLive ==
    \/ \E dep \in Deployments, a \in AmountArgs, d \in DurationArgs :
          init(dep[1], a, d, dep[2]) /\ Untracked
    \/ \E c \in Address, t \in Tokens, a \in AmountArgs : ping(c, t, a) /\ Untracked
    \/ \E c \in Address : pong(c) /\ Untracked
    \/ Tick /\ Untracked

LiveSpec ==
    /\ Init
    /\ [][NextLive]_vars
    /\ WF_vars(Tick /\ Untracked)
    /\ \A c \in Address : WF_vars(Withdraws(c))

TypeOK ==
    /\ accepted_payment_token_id \in Tokens \cup {NoToken}
    /\ ping_amount \in 0..MaxAmount
    /\ duration_in_seconds \in U64
    /\ \A a \in Address : user_ping_timestamp[a] \in {<<>>} \cup {<<v>> : v \in 1..MaxU64}
    /\ paused \in BOOLEAN
    /\ owner \in Address \cup {NoAddress}
    /\ block_timestamp \in U64
    /\ balance \in 0..MaxBalance
    /\ \A a \in Address : held[a] \in BOOLEAN
    /\ \A a \in Address : deposited[a] \in 0..MaxAmount

\* ----------------------------------------------------------------- claims
\* A step that is a call (Tick is the only step that moves the block
\* timestamp); last' then describes that call.
Call == block_timestamp' = block_timestamp
CallOf(op, P) == Call /\ last'.op = op /\ last'.caller = P

\* the errors a ping call ends in before its payment has passed the checks
PingNotReached == {"ContractPaused", "InvalidPaymentToken", "IncorrectPingAmount"}

\* C1 (as stated): a pong by a party with an active lock at a time before
\* get_pong_enable_timestamp(P) is rejected with CannotPongBeforeDeadline,
\* the lock stays and nothing is transferred or notified.
C1_PrematurePongRejected_Original ==
    [][\A P \in Address :
        (CallOf("pong", P) /\ did_user_ping(P)
           /\ block_timestamp < get_pong_enable_timestamp(P))
        => /\ last'.err = "CannotPongBeforeDeadline"
           /\ user_ping_timestamp'[P] # <<>>
           /\ balance' = balance /\ last'.paid = 0 /\ last'.event = "none"]_vars

\* C1 (amended): such a pong is rejected, the lock stays and nothing is
\* transferred or notified; the rejection is ContractPaused while paused and
\* otherwise CannotPongBeforeDeadline (or the panic of an overflow-checking
\* build when stored timestamp + duration does not fit u64).
C1_PrematurePongRejected ==
    [][\A P \in Address :
        (CallOf("pong", P) /\ did_user_ping(P)
           /\ block_timestamp < get_pong_enable_timestamp(P))
        => /\ IF paused
              THEN last'.err = "ContractPaused"
              ELSE \/ last'.err = "CannotPongBeforeDeadline"
                   \/ last'.err = "ArithmeticOverflow" /\ pong_enable_overflows(P)
           /\ user_ping_timestamp'[P] # <<>>
           /\ balance' = balance /\ last'.paid = 0 /\ last'.event = "none"]_vars

\* a pong before the deadline, contract not paused, has just been rejected
C1_Witness ==
    /\ last.op = "pong" /\ last.err = "CannotPongBeforeDeadline"
    /\ ~paused
    /\ did_user_ping(last.caller)
    /\ block_timestamp < get_pong_enable_timestamp(last.caller)

\* C2: a party whose latest call was a successful ping at time T (last.arg),
\* with no call by anyone since, pongs at a time >= T + duration while the
\* contract is not paused: the pong succeeds, pays exactly ping_amount and
\* clears the lock; a pong right after a successful pong is rejected.
C2_RoundTrip ==
    [][\A P \in Address :
        /\ (/\ last.op = "ping" /\ last.caller = P /\ last.err = "ok"
            /\ CallOf("pong", P) /\ ~paused
            /\ block_timestamp >= last.arg + duration_in_seconds)
           => /\ last'.err = "ok"
              /\ last'.paid = ping_amount
              /\ balance' = balance - ping_amount
              /\ user_ping_timestamp'[P] = <<>>
        /\ (/\ last.op = "pong" /\ last.caller = P /\ last.err = "ok"
            /\ CallOf("pong", P))
           => last'.err # "ok"]_vars

\* C3: deposits minus withdraws of a party stays in {0, 1}: no ping of P is
\* accepted while P holds a deposit not yet withdrawn (held[P]), and no pong
\* of P is accepted while P holds none.
C3_AtMostOneDeposit ==
    [][\A P \in Address :
        /\ (CallOf("ping", P) /\ last'.err = "ok") => ~held[P]
        /\ (CallOf("pong", P) /\ last'.err = "ok") => held[P]]_vars

\* C4: right after a successful ping by P at time now, did_user_ping(P) is
\* true and get_pong_enable_timestamp(P) is now + duration_in_seconds.
C4_PingSetsLock ==
    [][\A P \in Address :
        (CallOf("ping", P) /\ last'.err = "ok")
        => /\ user_ping_timestamp'[P] # <<>>
           /\ get_pong_enable_timestamp(P)' = block_timestamp + duration_in_seconds]_vars

\* C5: P's ping right after P's successful ping, with the contract not paused
\* and the right token and amount attached, is rejected with AlreadyPinged
\* and leaves storage and balance as they were.
C5_SecondPingRejected ==
    [][\A P \in Address :
        (/\ last.op = "ping" /\ last.caller = P /\ last.err = "ok"
         /\ CallOf("ping", P) /\ last'.err \notin PingNotReached)
        => /\ last'.err = "AlreadyPinged"
           /\ UNCHANGED <<storage, balance>>]_vars

\* C6: while paused, every ping, pong and extend_ping_duration call ends in
\* ContractPaused and changes nothing; pause and unpause depend on the caller
\* alone, paused or not.
C6_PauseGate ==
    [][/\ (Call /\ paused /\ last'.op \in {"ping", "pong", "extend_ping_duration"})
          => /\ last'.err = "ContractPaused"
             /\ UNCHANGED <<storage, balance>>
             /\ last'.paid = 0 /\ last'.event = "none"
       /\ (Call /\ last'.op \in {"pause", "unpause"})
          => IF last'.caller = owner
             THEN last'.err = "ok" /\ paused' = (last'.op = "pause")
             ELSE last'.err = "OnlyOwnerCanPerformThisAction" /\ paused' = paused]_vars

\* paused, and a pong that every other check would have let through was rejected
C6_Witness ==
    /\ paused
    /\ last.op = "pong" /\ last.err = "ContractPaused"
    /\ did_user_ping(last.caller)
    /\ ~pong_enable_overflows(last.caller)
    /\ block_timestamp >= get_pong_enable_timestamp(last.caller)
    /\ balance >= ping_amount

\* C7: a successful extend_ping_duration(s) by a party with enable timestamp
\* E makes it E + s; a call with s = 0 is rejected and leaves it at E.
C7_ExtensionAdditive ==
    [][\A P \in Address :
        (CallOf("extend_ping_duration", P) /\ did_user_ping(P))
        => /\ last'.err = "ok"
              => get_pong_enable_timestamp(P)' =
                     get_pong_enable_timestamp(P) + last'.arg
           /\ last'.err = "InvalidExtensionAmount"
              => get_pong_enable_timestamp(P)' = get_pong_enable_timestamp(P)]_vars

\* C8: upgrade, pause and unpause by anyone but the owner end in
\* OnlyOwnerCanPerformThisAction and leave amount, duration, pause flag and
\* ledger as they were.
C8_OwnerExclusive ==
    [][(Call /\ last'.op \in {"upgrade", "pause", "unpause"} /\ last'.caller # owner)
       => /\ last'.err = "OnlyOwnerCanPerformThisAction"
          /\ UNCHANGED <<ping_amount, duration_in_seconds, paused,
                         user_ping_timestamp>>]_vars

\* a paused contract that somebody other than the owner just tried to unpause
C8_Witness ==
    /\ Deployed /\ paused
    /\ last.op = "unpause" /\ last.caller # owner
    /\ last.err = "OnlyOwnerCanPerformThisAction"

\* C9: once initialised, ping_amount and duration_in_seconds are positive.
C9_ConfigPositive ==
    Deployed => ping_amount > 0 /\ duration_in_seconds > 0

\* an upgrade with a zero duration has just been rejected
C9_Witness ==
    /\ Deployed
    /\ last.op = "upgrade" /\ last.err = "DurationCannotBeZero"

\* C10: a call that ends in a rejection leaves storage and balance as they
\* were, pays nothing and emits no event.
C10_RejectionNoEffect ==
    [][(Call /\ last'.err # "ok")
       => /\ UNCHANGED <<storage, balance>>
          /\ last'.paid = 0 /\ last'.event = "none"]_vars

\* the owner's upgrade(a, 0) with a > 0 has just been rejected (only such a
\* call ends in DurationCannotBeZero) while the contract holds deposits
C10_Witness ==
    /\ Deployed
    /\ last.op = "upgrade" /\ last.caller = owner
    /\ last.err = "DurationCannotBeZero"
    /\ balance > 0

\* C11: the amount a successful pong pays to P is the amount P attached to
\* the ping that created the lock (deposited[P]), whatever upgrades came
\* in between.
C11_PaysBackDeposit ==
    [][\A P \in Address :
        (CallOf("pong", P) /\ last'.err = "ok") => last'.paid = deposited[P]]_vars

\* C12: an accepted pong clears the caller's ledger entry before it
\* transfers, so a pong the recipient makes from inside the transfer ends in
\* NoPingFound, and the accepted pong pays one ping_amount.
C12_ClearBeforeTransfer ==
    [][\A P \in Address :
        (CallOf("pong", P) /\ last'.err = "ok")
        => /\ last'.nested = "NoPingFound"
           /\ last'.paid = ping_amount
           /\ balance' = balance - ping_amount
           /\ user_ping_timestamp'[P] = <<>>]_vars

\* a pong has just been accepted and its re-entrant repeat was turned away
C12_Witness ==
    /\ last.op = "pong" /\ last.err = "ok"
    /\ last.nested = "NoPingFound"
    /\ last.paid = ping_amount

\* C13: P's ledger entry changes only in a successful call of P itself: it
\* is created by P's ping, given another value by P's extend_ping_duration
\* and removed by P's pong; no other step touches it.
C13_LedgerFrame ==
    [][\A P \in Address :
        user_ping_timestamp'[P] # user_ping_timestamp[P]
        => /\ Call /\ last'.caller = P /\ last'.err = "ok"
           /\ last'.op = (IF user_ping_timestamp[P] = <<>> THEN "ping"
                          ELSE IF user_ping_timestamp'[P] = <<>> THEN "pong"
                          ELSE "extend_ping_duration")]_vars

\* C14: once initialised, no step changes the owner or the accepted token.
C14_OwnerAndTokenFixed ==
    [][Deployed => /\ get_owner' = get_owner
                   /\ get_accepted_payment_token' = get_accepted_payment_token]_vars

\* the owner has just retuned a contract deployed with a token of its own
C14_Witness ==
    /\ Deployed
    /\ last.op = "upgrade" /\ last.err = "ok"
    /\ get_accepted_payment_token # EGLD
    /\ \E P \in Address : did_user_ping(P)

\* C15: without a lock get_pong_enable_timestamp is 0 and get_time_to_pong is
\* None; with a lock get_time_to_pong is Some(0) from the enable timestamp on
\* and Some(enable timestamp - now) before it; and a pong of a party with a
\* lock on an unpaused contract fails the deadline check exactly when
\* get_time_to_pong is not Some(0).  The views are read in the state in which
\* the party calls pong, which it can do in every state after initialisation,
\* and in every state before it; a view that ends in a panic returns neither.
C15_ViewsConsistent ==
    [][\A P \in Address :
        /\ (~Deployed \/ CallOf("pong", P))
           => /\ ~did_user_ping(P)
                 => get_pong_enable_timestamp(P) = 0 /\ get_time_to_pong(P) = <<>>
              /\ did_user_ping(P)
                 => /\ \A overflow_checks \in OverflowChecks :
                          ~view_panics(P, overflow_checks)
                    /\ get_time_to_pong(P) =
                          (IF block_timestamp >= get_pong_enable_timestamp(P)
                           THEN <<0>>
                           ELSE <<get_pong_enable_timestamp(P) - block_timestamp>>)
        /\ (CallOf("pong", P) /\ did_user_ping(P) /\ ~paused
               /\ last'.err # "ArithmeticOverflow")
           => (get_time_to_pong(P) = <<0>>
                 <=> last'.err # "CannotPongBeforeDeadline")]_vars

\* C16: init(amount, duration, token?) by a caller ends in
\* PingAmountCannotBeZero for amount 0, in DurationCannotBeZero for a positive
\* amount and duration 0, and otherwise stores amount and duration, the given
\* token or EGLD when none is given, the caller as owner and paused = false,
\* with no party holding a lock.
C16_Init ==
    [][~Deployed =>
       \A dep \in Deployments, a \in AmountArgs, d \in DurationArgs :
        (init(dep[1], a, d, dep[2]) /\ Untracked)
        => IF a = 0
           THEN last'.err = "PingAmountCannotBeZero" /\ ~Deployed'
           ELSE IF d = 0
           THEN last'.err = "DurationCannotBeZero" /\ ~Deployed'
           ELSE /\ last'.err = "ok"
                /\ get_ping_amount' = a
                /\ get_duration_timestamp' = d
                /\ get_accepted_payment_token' =
                       (IF dep[2] = NoToken THEN EGLD ELSE dep[2])
                /\ get_owner' = dep[1]
                /\ get_paused' = FALSE
                /\ \A P \in Address : user_ping_timestamp'[P] = <<>>]_vars

\* a contract just initialised without a token argument
C16_Witness ==
    /\ last.op = "init" /\ last.err = "ok"
    /\ get_owner = last.caller
    /\ get_accepted_payment_token = EGLD
    /\ ~get_paused

\* C17: the custody balance covers one current ping_amount for every party
\* with a lock.
C17_Solvent ==
    balance >= Cardinality({P \in Address : did_user_ping(P)}) * ping_amount

\* C18: a party whose ping was accepted eventually has a pong accepted, when
\* the contract is never paused, retuned or extended and time keeps advancing.
C18_EventuallyWithdrawn ==
    \A P \in Address : held[P] ~> ~held[P]

\* C19: for every party with a lock, stored timestamp + duration_in_seconds
\* fits in a u64.
C19_NoOverflow ==
    \A P \in Address :
        did_user_ping(P)
        => ~Overflows(get_user_ping_timestamp(P), duration_in_seconds)

\* an accepted upgrade to duration d leaves every stored timestamp as it was
\* and makes get_pong_enable_timestamp(P) the stored timestamp of P plus d
\* (a u64 sum) for every party P with a lock
RetuneIsRetroactive ==
    (Call /\ last'.op = "upgrade" /\ last'.err = "ok")
    => \A c \in Address, a \in AmountArgs, d \in DurationArgs :
          (upgrade(c, a, d) /\ Untracked)
          => /\ user_ping_timestamp' = user_ping_timestamp
             /\ \A P \in Address :
                   did_user_ping(P)
                   => get_pong_enable_timestamp(P)' =
                         WrappingAdd(get_user_ping_timestamp(P), d)

\* C20 (as stated): after an accepted upgrade to duration d every party with
\* a lock has get_pong_enable_timestamp = stored timestamp + d, the stored
\* timestamps unchanged, and a pong by a party with a lock is accepted exactly
\* when the block timestamp has reached get_pong_enable_timestamp.
C20_RetroactiveRetune_Original ==
    [][/\ RetuneIsRetroactive
       /\ \A P \in Address :
            (CallOf("pong", P) /\ did_user_ping(P))
            => (last'.err = "ok"
                  <=> block_timestamp >= get_pong_enable_timestamp(P))]_vars

\* C20 (amended): the same effect of upgrade; a pong by a party with a lock
\* while the contract is not paused ends in CannotPongBeforeDeadline only
\* before get_pong_enable_timestamp, is accepted only from that timestamp on
\* and with a balance that covers ping_amount, and is accepted under exactly
\* these conditions when stored timestamp + duration fits in a u64; otherwise
\* it may end in the overflow panic.  While paused it ends in ContractPaused.
C20_RetroactiveRetune ==
    [][/\ RetuneIsRetroactive
       /\ \A P \in Address :
            (CallOf("pong", P) /\ did_user_ping(P))
            => IF paused
               THEN last'.err = "ContractPaused"
               ELSE /\ last'.err \in {"ok", "TransferFailed",
                                      "CannotPongBeforeDeadline", "ArithmeticOverflow"}
                    /\ last'.err = "CannotPongBeforeDeadline"
                       => block_timestamp < get_pong_enable_timestamp(P)
                    /\ last'.err = "TransferFailed"
                       => /\ block_timestamp >= get_pong_enable_timestamp(P)
                          /\ balance < ping_amount
                    /\ last'.err = "ok"
                       => /\ block_timestamp >= get_pong_enable_timestamp(P)
                          /\ balance >= ping_amount
                    /\ last'.err = "ArithmeticOverflow"
                       => pong_enable_overflows(P)]_vars

\* the owner has just retuned while a party holds a lock that is not yet due
C20_Witness ==
    /\ last.op = "upgrade" /\ last.err = "ok"
    /\ ~paused
    /\ \E P \in Address :
          /\ did_user_ping(P)
          /\ ~pong_enable_overflows(P)
          /\ block_timestamp < get_pong_enable_timestamp(P)
          /\ get_pong_enable_timestamp(P) > get_user_ping_timestamp(P) + 1

====
